---- MODULE Spec2Model ----
(***************************************************************************)
(* Model of the sync orchestration routes of famly_to_babyconnect_sync:    *)
(*   backend/api/routes_sync.py          (scrape, entries, missing)        *)
(*   backend/api/routes_homeassistant.py (homeassistant_run)               *)
(* Every request is a thread of the web server running one route handler;  *)
(* a step of a request is one call the handler makes.  The progress        *)
(* tracker (core/progress_state.py) and the services of                    *)
(* core/sync_service.py are not part of the two route files; they are      *)
(* modelled from their documented contract.                                *)
(***************************************************************************)
EXTENDS Integers, Sequences, FiniteSets, TLC

\* ------------------------------------------------------------------ bounds
NumReqs == 2         \* concurrent request threads
MaxId == 2           \* event ids are 1..MaxId
MaxLen == 2          \* longest CreateEntries payload
MaxFaults == 1       \* tracker calls that raise in one run (SpecTF only)
MaxTime == 2         \* created_at values are 1..MaxTime

\* ------------------------------------------------------- program constants
MinDaysBack == 0             \* Query(ge=0)
FamlyMaxDaysBack == 7        \* scrape_famly: Query(le=7)
BabyConnectMaxDaysBack == 14 \* scrape_baby_connect: Query(le=14)
RunMaxDaysBack == 7          \* homeassistant_run: Query(le=7)
Conflict == 409              \* _acquire_sync_lock: HTTPException(status_code=409)
ServerError == 500           \* HTTPException(status_code=500)
Unprocessable == 422         \* what the framework answers when a Query bound fails
Ok == 200                    \* what the framework answers when the handler returns

Reqs == 1..NumReqs
Times == 1..MaxTime
Ids == 1..MaxId

\* payloads of CreateEntries: the lists of distinct ids of length <= MaxLen,
\* in every order
Payloads ==
    {p \in UNION {[1..n -> Ids] : n \in 0..MaxLen} :
        \A i, j \in DOMAIN p : p[i] = p[j] => i = j}

GatedOps == {"CreateEntries", "SyncMissing"}
ReplayOps == {"CreateEntries", "SyncMissing", "RunTrimmed"}
DaysOps == {"ScrapeSource", "ScrapeTarget", "RunTrimmed"}

\* status field of the result dict the create-entries service returns
ResultStatuses == {"ok", "absent", "partial"}

VARIABLES
    lock,       \* _SYNC_LOCK: TRUE when locked
    holder,     \* the requests whose acquire locked it and that have not released: history
    progress,   \* the tracker's entries: a function from the names present
    famlyIds,   \* ids stored under source_system "famly"
    bcIds,      \* ids stored under source_system "baby_connect"
    famlyLast,  \* max(Event.created_at) of the "famly" events, 0 when there is none
    bcLast,     \* max(Event.created_at) of the "baby_connect" events, 0 when none
    op,         \* op[r]: the route request r is running ("idle" when none)
    pc,         \* pc[r]: the handler line r is about to execute
    days,       \* days_back of r
    ids,        \* payload.event_ids or missing_ids of r
    cur,        \* writes of r's service call that succeeded
    success,    \* the handler's local `success`
    outcome,    \* what r returns (or raises) when it ends
    calls,      \* service calls r has made, in order: history
    writes,     \* ids r attempted to write to the target, in order: history
    recorded,   \* r's fail_progress left a failed "sync" entry with detail: history
    faults      \* tracker calls that have raised so far

vars == <<lock, holder, progress, famlyIds, bcIds, famlyLast, bcLast, op, pc, days, ids, cur,
          success, outcome, calls, writes, recorded, faults>>

\* ------------------------------------------------------ progress tracker
NoEntries == [n \in {} |-> 0]

Present(p, name) == name \in DOMAIN p

Put(p, name, e) == [n \in DOMAIN p \cup {name} |-> IF n = name THEN e ELSE p[n]]

Min(a, b) == IF a <= b THEN a ELSE b

Later(a, b) == IF a >= b THEN a ELSE b

\* start(name, total): creates or replaces the entry, running, current 0
start_progress(p, name, total) ==
    Put(p, name, [status |-> "running", total |-> total, current |-> 0,
                  message |-> "", error |-> ""])

\* set_message(name, text): no-op when the entry is absent
set_progress_message(p, name, text) ==
    IF Present(p, name) THEN Put(p, name, [p[name] EXCEPT !.message = text]) ELSE p

\* advance(name, delta): current + delta clamped to total; running entries only
advance_progress(p, name, delta) ==
    IF Present(p, name) /\ p[name].status = "running"
    THEN Put(p, name, [p[name] EXCEPT !.current = Min(@ + delta, p[name].total)])
    ELSE p

\* finish(name): running -> succeeded
finish_progress(p, name) ==
    IF Present(p, name) /\ p[name].status = "running"
    THEN Put(p, name, [p[name] EXCEPT !.status = "succeeded"])
    ELSE p

\* fail(name, detail): running -> failed, error recorded
fail_progress(p, name, detail) ==
    IF Present(p, name) /\ p[name].status = "running"
    THEN Put(p, name, [p[name] EXCEPT !.status = "failed", !.error = detail])
    ELSE p

\* clear(name): the entry is removed whatever its state
clear_progress(p, name) == [n \in DOMAIN p \ {name} |-> p[n]]

\* snapshot(): a copy of the entries
get_progress_snapshot(p) == p

\* ------------------------------------------------------------- responses
\* a formatted timestamp is <<t>>; <<>> stands for None
NoOutcome ==
    [code |-> 0, detail |-> "", status |-> "", created |-> 0, scraped |-> 0,
     days_back |-> 0, missing |-> <<>>, synced |-> <<>>, snapshot |-> NoEntries,
     sync_in_progress |-> FALSE, sync_status |-> "", last_sync_at |-> <<>>,
     famly_last_scrape_at |-> <<>>, baby_connect_last_scrape_at |-> <<>>]

HttpError(code, detail) == [NoOutcome EXCEPT !.code = code, !.detail = detail]

\* an exception no handler catches: the server answers 500 without the detail
Unhandled == HttpError(ServerError, "Internal Server Error")

ConflictDetail == "Sync already in progress. Please wait for it to finish."

Set(r, f, v) == [f EXCEPT ![r] = v]

\* the call is logged once, when the service is entered
Called(r, name) ==
    IF Len(calls[r]) > 0 /\ calls[r][Len(calls[r])] = name
    THEN calls ELSE Set(r, calls, Append(calls[r], name))

\* ------------------------------------------------------------------ init
Init ==
    /\ lock = FALSE
    /\ holder = {}
    /\ progress = NoEntries
    /\ famlyIds = {}
    /\ bcIds = {}
    /\ famlyLast = 0
    /\ bcLast = 0
    /\ op = [r \in Reqs |-> "idle"]
    /\ pc = [r \in Reqs |-> "idle"]
    /\ days = [r \in Reqs |-> 0]
    /\ ids = [r \in Reqs |-> <<>>]
    /\ cur = [r \in Reqs |-> 0]
    /\ success = [r \in Reqs |-> FALSE]
    /\ outcome = [r \in Reqs |-> NoOutcome]
    /\ calls = [r \in Reqs |-> <<>>]
    /\ writes = [r \in Reqs |-> <<>>]
    /\ recorded = [r \in Reqs |-> FALSE]
    /\ faults = 0

\* ------------------------------------------------------ single-flight gate
\* (mutant) the acquire moved inside the try block: a conflict runs the finally
AcquireInsideTry(r, next) ==
    IF lock
    THEN /\ pc' = Set(r, pc, "clear")
         /\ outcome' = Set(r, outcome, HttpError(Conflict, ConflictDetail))
         /\ UNCHANGED <<lock, holder>>
    ELSE /\ lock' = TRUE
         /\ holder' = holder \cup {r}
         /\ pc' = Set(r, pc, next)
         /\ UNCHANGED outcome

\* _acquire_sync_lock, called first thing by a gated handler: the lock is taken
\* and the handler goes on at `next`, or 409 is raised out of the handler
AcquireSyncLock(r, next) ==
    IF lock
    THEN /\ pc' = Set(r, pc, "done")
         /\ outcome' = Set(r, outcome, HttpError(Conflict, ConflictDetail))
         /\ UNCHANGED <<lock, holder>>
    ELSE /\ lock' = TRUE
         /\ holder' = holder \cup {r}
         /\ pc' = Set(r, pc, next)
         /\ UNCHANGED outcome

\* _release_sync_lock: releases whenever the lock is locked, whoever locked it
ReleaseSyncLock(r) ==
    IF lock
    THEN lock' = FALSE /\ holder' = {}
    ELSE UNCHANGED <<lock, holder>>

\* -------------------------------------------------------- CreateEntries
\* POST /sync/baby_connect/entries: the payload arrives, the gate is tried
CreateEntries(r) ==
    \E p \in Payloads :
        /\ pc[r] = "idle"
        /\ op' = Set(r, op, "CreateEntries")
        /\ ids' = Set(r, ids, p)
        /\ AcquireSyncLock(r, "start")
        /\ UNCHANGED <<progress, famlyIds, bcIds, famlyLast, bcLast, days, cur, success, calls,
                       writes, recorded, faults>>

StartMessage(r) ==
    IF op[r] = "CreateEntries" THEN "Syncing selected entries..."
    ELSE "Syncing missing entries..."

\* start_progress("sync", len(ids))
StartProgress(r) ==
    /\ pc[r] = "start"
    /\ op[r] \in GatedOps
    /\ progress' = start_progress(progress, "sync", Len(ids[r]))
    /\ pc' = Set(r, pc, "msg")
    /\ UNCHANGED <<lock, holder, famlyIds, bcIds, famlyLast, bcLast, op, days, ids, cur, success,
                   outcome, calls, writes, recorded, faults>>

\* set_progress_message("sync", ...); success = False; the try block is entered
SetMessage(r) ==
    /\ pc[r] = "msg"
    /\ op[r] \in GatedOps
    /\ progress' = set_progress_message(progress, "sync", StartMessage(r))
    /\ success' = Set(r, success, FALSE)
    /\ pc' = Set(r, pc, "service")
    /\ UNCHANGED <<lock, holder, famlyIds, bcIds, famlyLast, bcLast, op, days, ids, cur, outcome,
                   calls, writes, recorded, faults>>

\* ----------------------------------------------- create-entries service
\* The result dict of create_entries_service(ids): the count created, and a
\* status field the service may or may not set
ServiceResult(r, st) == [created |-> Len(ids[r]), status |-> st]

\* dict(result) in the three callers: what becomes of the result's fields
\*   create_babyconnect_entries: setdefault("synced_event_ids", ids)
\*   sync_missing_entries: setdefault("status", "ok"), missing_event_ids, synced
\*   homeassistant_run: response (status ok, created 0, ...) .update(result)
Response(r, result) ==
    [NoOutcome EXCEPT
        !.code = Ok,
        !.created = result.created,
        !.synced = ids[r],
        !.missing = IF op[r] = "CreateEntries" THEN <<>> ELSE ids[r],
        !.scraped = outcome[r].scraped,
        !.days_back = outcome[r].days_back,
        !.status = IF op[r] # "CreateEntries" /\ result.status = "absent"
                   THEN "ok" ELSE result.status]

\* what the caller's except clause does with an exception of the service
\*   gated handlers: go to fail_progress (and raise 500 after it)
\*   homeassistant_run: raise 500 "Syncing missing events failed: ..."
ReplayRaised(r) ==
    IF op[r] \in GatedOps
    THEN /\ pc' = Set(r, pc, "fail")
         /\ UNCHANGED outcome
    ELSE /\ pc' = Set(r, pc, "done")
         /\ outcome' = Set(r, outcome,
                HttpError(ServerError, "Syncing missing events failed: WriteError"))

\* one iteration of the service's loop: the target write of the next id
\* succeeds (advance("sync", 1)) or raises (the loop stops: fail-fast)
ServiceWrite(r) ==
    /\ pc[r] = "service"
    /\ cur[r] < Len(ids[r])
    /\ calls' = Called(r, "create")
    /\ writes' = Set(r, writes, Append(writes[r], ids[r][cur[r] + 1]))
    /\ \/ /\ cur' = Set(r, cur, cur[r] + 1)
          /\ progress' = advance_progress(progress, "sync", 1)
          /\ UNCHANGED <<pc, outcome>>
       \/ /\ ReplayRaised(r)
          /\ UNCHANGED <<cur, progress>>
    /\ UNCHANGED <<lock, holder, famlyIds, bcIds, famlyLast, bcLast, op, days, ids, success,
                   recorded, faults>>

\* the loop is over: the service returns its result and the caller builds the
\* response; a gated handler sets success = True and enters its finally block
ServiceReturn(r) ==
    /\ pc[r] = "service"
    /\ cur[r] = Len(ids[r])
    /\ calls' = Called(r, "create")
    /\ \E st \in ResultStatuses :
          outcome' = Set(r, outcome, Response(r, ServiceResult(r, st)))
    /\ IF op[r] \in GatedOps
       THEN success' = Set(r, success, TRUE) /\ pc' = Set(r, pc, "finish")
       ELSE UNCHANGED success /\ pc' = Set(r, pc, "done")
    /\ UNCHANGED <<lock, holder, progress, famlyIds, bcIds, famlyLast, bcLast, op, days, ids, cur,
                   writes, recorded, faults>>

\* (mutant) the except clause raises without fail_progress
FailWithoutRecording(r) ==
    /\ pc[r] = "fail"
    /\ recorded' = Set(r, recorded, FALSE)
    /\ outcome' = Set(r, outcome, HttpError(ServerError, "WriteError"))
    /\ pc' = Set(r, pc, "clear")
    /\ UNCHANGED <<lock, holder, progress, famlyIds, bcIds, famlyLast, bcLast,
                   op, days, ids, cur, success, calls, writes, faults>>

\* except Exception: fail_progress("sync", str(exc)); raise HTTPException(500)
FailProgress(r) ==
    /\ pc[r] = "fail"
    /\ progress' = fail_progress(progress, "sync", "WriteError")
    /\ recorded' = Set(r, recorded,
          /\ Present(progress', "sync")
          /\ progress'["sync"].status = "failed"
          /\ progress'["sync"].error = "WriteError")
    /\ outcome' = Set(r, outcome, HttpError(ServerError, "WriteError"))
    /\ pc' = Set(r, pc, "clear")
    /\ UNCHANGED <<lock, holder, famlyIds, bcIds, famlyLast, bcLast, op, days, ids, cur, success,
                   calls, writes, faults>>

\* finally: if success: finish_progress("sync")
FinishProgress(r) ==
    /\ pc[r] = "finish"
    /\ progress' = IF success[r] THEN finish_progress(progress, "sync") ELSE progress
    /\ pc' = Set(r, pc, "clear")
    /\ UNCHANGED <<lock, holder, famlyIds, bcIds, famlyLast, bcLast, op, days, ids, cur, success,
                   outcome, calls, writes, recorded, faults>>

\* (mutant) clear_progress moved under `if success`
ClearOnSuccessOnly(r) ==
    /\ pc[r] = "clear"
    /\ progress' = IF success[r] THEN clear_progress(progress, "sync") ELSE progress
    /\ pc' = Set(r, pc, "release")
    /\ UNCHANGED <<lock, holder, famlyIds, bcIds, famlyLast, bcLast, op, days, ids, cur, success,
                   outcome, calls, writes, recorded, faults>>

\* (mutant) the finally block releases where it should clear
ReleaseInPlaceOfClear(r) ==
    /\ pc[r] = "clear"
    /\ ReleaseSyncLock(r)
    /\ pc' = Set(r, pc, "release")
    /\ UNCHANGED <<progress, famlyIds, bcIds, famlyLast, bcLast, op, days, ids,
                   cur, success, outcome, calls, writes, recorded, faults>>

\* finally: clear_progress("sync")
ClearProgress(r) ==
    /\ pc[r] = "clear"
    /\ progress' = clear_progress(progress, "sync")
    /\ pc' = Set(r, pc, "release")
    /\ UNCHANGED <<lock, holder, famlyIds, bcIds, famlyLast, bcLast, op, days, ids, cur, success,
                   outcome, calls, writes, recorded, faults>>

\* finally: _release_sync_lock(); the handler returns or raises
Release(r) ==
    /\ pc[r] = "release"
    /\ ReleaseSyncLock(r)
    /\ pc' = Set(r, pc, "done")
    /\ UNCHANGED <<progress, famlyIds, bcIds, famlyLast, bcLast, op, days, ids, cur, success,
                   outcome, calls, writes, recorded, faults>>

\* ------------------------------------------------------- ComputeMissing
RECURSIVE Ascending(_)
Ascending(S) ==
    IF S = {} THEN <<>>
    ELSE LET m == CHOOSE x \in S : \A y \in S : x <= y
         IN <<m>> \o Ascending(S \ {m})

\* (mutant) the target tag is not consulted
AllSourceIds(famly, bc) == Ascending(famly)

\* get_missing_famly_event_ids(): the famly ids with no baby_connect event
get_missing_famly_event_ids(famly, bc) == Ascending(famly \ bc)

\* ---------------------------------------------------------- SyncMissing
\* POST /sync/missing: the gate is tried first
SyncMissing(r) ==
    /\ pc[r] = "idle"
    /\ op' = Set(r, op, "SyncMissing")
    /\ AcquireSyncLock(r, "missing")
    /\ UNCHANGED <<progress, famlyIds, bcIds, famlyLast, bcLast, days, ids, cur, success, calls,
                   writes, recorded, faults>>

\* (mutant) the `if not missing_ids` exit left out: an empty set is replayed
ComputeWithoutEmptyExit(r) ==
    /\ pc[r] = "missing"
    /\ op[r] = "SyncMissing"
    /\ calls' = Called(r, "missing")
    /\ \/ /\ outcome' = Set(r, outcome, HttpError(ServerError, "QueryError"))
          /\ pc' = Set(r, pc, "exit")
          /\ UNCHANGED ids
       \/ /\ ids' = Set(r, ids, get_missing_famly_event_ids(famlyIds, bcIds))
          /\ pc' = Set(r, pc, "start")
          /\ UNCHANGED outcome
    /\ UNCHANGED <<lock, holder, progress, famlyIds, bcIds, famlyLast, bcLast, op, days, cur,
                   success, writes, recorded, faults>>

\* (mutant) the except clause releases and then falls into the exit's release
ComputeReleasesTwice(r) ==
    /\ pc[r] = "missing"
    /\ op[r] = "SyncMissing"
    /\ calls' = Called(r, "missing")
    /\ \/ /\ outcome' = Set(r, outcome, HttpError(ServerError, "QueryError"))
          /\ pc' = Set(r, pc, "exit")
          /\ ReleaseSyncLock(r)
          /\ UNCHANGED ids
       \/ LET missing_ids == get_missing_famly_event_ids(famlyIds, bcIds) IN
          /\ ids' = Set(r, ids, missing_ids)
          /\ IF missing_ids = <<>>
             THEN /\ outcome' = Set(r, outcome,
                        [NoOutcome EXCEPT !.code = Ok, !.status = "ok"])
                  /\ pc' = Set(r, pc, "exit")
             ELSE /\ pc' = Set(r, pc, "start")
                  /\ UNCHANGED outcome
          /\ UNCHANGED <<lock, holder>>
    /\ UNCHANGED <<progress, famlyIds, bcIds, famlyLast, bcLast, op, days, cur,
                   success, writes, recorded, faults>>

\* missing_ids = get_missing_famly_event_ids() with the gate held:
\*   it raises:  on to the early exit that raises HTTPException(500)
\*   empty:      on to the early exit that returns created 0
\*   otherwise:  on to start_progress
SyncMissingCompute(r) ==
    /\ pc[r] = "missing"
    /\ op[r] = "SyncMissing"
    /\ calls' = Called(r, "missing")
    /\ \/ /\ outcome' = Set(r, outcome, HttpError(ServerError, "QueryError"))
          /\ pc' = Set(r, pc, "exit")
          /\ UNCHANGED ids
       \/ LET missing_ids == get_missing_famly_event_ids(famlyIds, bcIds) IN
          /\ ids' = Set(r, ids, missing_ids)
          /\ IF missing_ids = <<>>
             THEN /\ outcome' = Set(r, outcome,
                        [NoOutcome EXCEPT !.code = Ok, !.status = "ok"])
                  /\ pc' = Set(r, pc, "exit")
             ELSE /\ pc' = Set(r, pc, "start")
                  /\ UNCHANGED outcome
    /\ UNCHANGED <<lock, holder, progress, famlyIds, bcIds, famlyLast, bcLast, op, days, cur,
                   success, writes, recorded, faults>>

\* (mutant) the release of the empty-set exit left out
ExitReleasesOnErrorOnly(r) ==
    /\ pc[r] = "exit"
    /\ IF outcome[r].code = ServerError
       THEN ReleaseSyncLock(r)
       ELSE UNCHANGED <<lock, holder>>
    /\ pc' = Set(r, pc, "done")
    /\ UNCHANGED <<progress, famlyIds, bcIds, famlyLast, bcLast, op, days, ids, cur, success,
                   outcome, calls, writes, recorded, faults>>

\* the two early exits: _release_sync_lock(), then raise 500 / return created 0
SyncMissingExit(r) ==
    /\ pc[r] = "exit"
    /\ ReleaseSyncLock(r)
    /\ pc' = Set(r, pc, "done")
    /\ UNCHANGED <<progress, famlyIds, bcIds, famlyLast, bcLast, op, days, ids, cur, success,
                   outcome, calls, writes, recorded, faults>>

\* ------------------------------------------------------------- scrapes
\* Query(ge=.., le=..): the bound of days_back of each route
MaxDaysBack(o) ==
    IF o = "ScrapeTarget" THEN BabyConnectMaxDaysBack
    ELSE IF o = "RunTrimmed" THEN RunMaxDaysBack
    ELSE FamlyMaxDaysBack

\* (mutant) the le= bound left out of the Query
DaysBackWithoutUpperBound(o, d) == MinDaysBack <= d

ValidDaysBack(o, d) == MinDaysBack <= d /\ d <= MaxDaysBack(o)

\* days_back values a client sends to route o: both sides of each of its bounds
DaysInputs(o) == {MinDaysBack - 1, MinDaysBack, MaxDaysBack(o), MaxDaysBack(o) + 1}

\* A request with a days_back parameter arrives: the parameter is validated
\* before the handler's body runs (422 when out of range)
Arrive(r, o, d) ==
    /\ pc[r] = "idle"
    /\ op' = Set(r, op, o)
    /\ days' = Set(r, days, d)
    /\ IF ValidDaysBack(o, d)
       THEN /\ pc' = Set(r, pc, "scrape")
            /\ UNCHANGED outcome
       ELSE /\ pc' = Set(r, pc, "done")
            /\ outcome' = Set(r, outcome, HttpError(Unprocessable, "days_back"))
    /\ UNCHANGED <<lock, holder, progress, famlyIds, bcIds, famlyLast, bcLast, ids, cur, success,
                   calls, writes, recorded, faults>>

\* POST /scrape/famly
ScrapeSource(r) == \E d \in DaysInputs("ScrapeSource") : Arrive(r, "ScrapeSource", d)

\* POST /scrape/baby_connect
ScrapeTarget(r) == \E d \in DaysInputs("ScrapeTarget") : Arrive(r, "ScrapeTarget", d)

\* POST /homeassistant/run
RunTrimmed(r) == \E d \in DaysInputs("RunTrimmed") : Arrive(r, "RunTrimmed", d)

\* the events a scrape adds carry a created_at; the latest of the tag moves
\* up to it when it is later than every stored one
Stamped(added, last, last2) ==
    IF added = {} THEN last2 = last
    ELSE \E t \in Times : last2 = Later(last, t)

ScrapeErrorDetail(o) ==
    IF o = "RunTrimmed" THEN "Famly scrape failed: ScrapeError" ELSE "ScrapeError"

\* events = scrape_famly_and_store(days_back) / scrape_babyconnect_and_store:
\* the driver raises (500), or the events it found are stored under the tag
Scrape(r) ==
    /\ pc[r] = "scrape"
    /\ calls' = Called(r, IF op[r] = "ScrapeTarget" THEN "scrape_bc" ELSE "scrape_famly")
    /\ \/ /\ outcome' = Set(r, outcome, HttpError(ServerError, ScrapeErrorDetail(op[r])))
          /\ pc' = Set(r, pc, "done")
          /\ UNCHANGED <<famlyIds, bcIds, famlyLast, bcLast>>
       \/ \E events \in SUBSET Ids :
          /\ IF op[r] = "ScrapeTarget"
             THEN /\ bcIds' = bcIds \cup events
                  /\ Stamped(events \ bcIds, bcLast, bcLast')
                  /\ UNCHANGED <<famlyIds, famlyLast>>
             ELSE /\ famlyIds' = famlyIds \cup events
                  /\ Stamped(events \ famlyIds, famlyLast, famlyLast')
                  /\ UNCHANGED <<bcIds, bcLast>>
          /\ outcome' = Set(r, outcome,
                [NoOutcome EXCEPT !.code = IF op[r] = "RunTrimmed" THEN 0 ELSE Ok,
                                  !.status = IF op[r] = "RunTrimmed" THEN "" ELSE "ok",
                                  !.scraped = Cardinality(events),
                                  !.days_back = days[r]])
          /\ pc' = Set(r, pc, IF op[r] = "RunTrimmed" THEN "missing" ELSE "done")
    /\ UNCHANGED <<lock, holder, progress, op, days, ids, cur, success, writes,
                   recorded, faults>>

\* ------------------------------------------------------------ RunTrimmed
\* (mutant) the `if missing_ids` test left out: the replay always follows
RunReplaysAlways(r) ==
    /\ pc[r] = "missing"
    /\ op[r] = "RunTrimmed"
    /\ calls' = Called(r, "missing")
    /\ \/ /\ outcome' = Set(r, outcome,
                HttpError(ServerError, "Failed to determine missing events: QueryError"))
          /\ pc' = Set(r, pc, "done")
          /\ UNCHANGED ids
       \/ LET missing_ids == get_missing_famly_event_ids(famlyIds, bcIds) IN
          /\ ids' = Set(r, ids, missing_ids)
          /\ outcome' = Set(r, outcome,
                [outcome[r] EXCEPT !.code = Ok, !.status = "ok", !.created = 0,
                                   !.missing = missing_ids, !.synced = <<>>])
          /\ pc' = Set(r, pc, "service")
    /\ UNCHANGED <<lock, holder, progress, famlyIds, bcIds, famlyLast, bcLast, op, days, cur,
                   success, writes, recorded, faults>>

\* missing_ids = get_missing_famly_event_ids(), no gate taken:
\*   it raises: 500 "Failed to determine missing events: ..."
\*   otherwise the response is built, and the replay follows if missing_ids
RunCompute(r) ==
    /\ pc[r] = "missing"
    /\ op[r] = "RunTrimmed"
    /\ calls' = Called(r, "missing")
    /\ \/ /\ outcome' = Set(r, outcome,
                HttpError(ServerError, "Failed to determine missing events: QueryError"))
          /\ pc' = Set(r, pc, "done")
          /\ UNCHANGED ids
       \/ LET missing_ids == get_missing_famly_event_ids(famlyIds, bcIds) IN
          /\ ids' = Set(r, ids, missing_ids)
          /\ outcome' = Set(r, outcome,
                [outcome[r] EXCEPT !.code = Ok, !.status = "ok", !.created = 0,
                                   !.missing = missing_ids, !.synced = <<>>])
          /\ pc' = Set(r, pc, IF missing_ids # <<>> THEN "service" ELSE "done")
    /\ UNCHANGED <<lock, holder, progress, famlyIds, bcIds, famlyLast, bcLast, op, days, cur,
                   success, writes, recorded, faults>>

\* ----------------------------------------------------------- GetProgress
\* GET /scrape/progress: the tracker's snapshot
GetProgress(r) ==
    /\ pc[r] = "idle"
    /\ op' = Set(r, op, "GetProgress")
    /\ pc' = Set(r, pc, "done")
    /\ outcome' = Set(r, outcome,
          [NoOutcome EXCEPT !.code = Ok, !.snapshot = get_progress_snapshot(progress)])
    /\ UNCHANGED <<lock, holder, progress, famlyIds, bcIds, famlyLast, bcLast, days, ids, cur,
                   success, calls, writes, recorded, faults>>

\* ------------------------------------------------------------- GetStatus
\* _format_timestamp: None for a falsy value, value.isoformat() otherwise
_format_timestamp(value) == IF value = 0 THEN <<>> ELSE <<value>>

\* _latest_event_timestamp: max(Event.created_at) of the tag, None when no event
_latest_event_timestamp(source_system) ==
    IF source_system = "famly" THEN famlyLast ELSE bcLast

\* (mutant) any entry at all counts as a sync in progress
AnyEntry(progress_snapshot) == DOMAIN progress_snapshot # {}

\* any(state.get("status") == "running" for state in progress_snapshot.values())
AnyRunning(progress_snapshot) ==
    \E n \in DOMAIN progress_snapshot : progress_snapshot[n].status = "running"

\* (mutant) the later of the two timestamps
LaterOfBoth(baby_last, famly_last) == Later(baby_last, famly_last)

\* baby_last or famly_last: the first operand unless it is None
LastSyncAt(baby_last, famly_last) ==
    IF baby_last # 0 THEN baby_last ELSE famly_last

\* GET /homeassistant/status: the snapshot, the two latest timestamps and what
\* is derived from them
GetStatus(r) ==
    /\ pc[r] = "idle"
    /\ op' = Set(r, op, "GetStatus")
    /\ pc' = Set(r, pc, "done")
    /\ LET progress_snapshot == get_progress_snapshot(progress)
           in_progress == AnyRunning(progress_snapshot)
           famly_last == _latest_event_timestamp("famly")
           baby_last == _latest_event_timestamp("baby_connect")
           last_sync_at == LastSyncAt(baby_last, famly_last)
       IN outcome' = Set(r, outcome,
            [NoOutcome EXCEPT
                !.code = Ok,
                !.last_sync_at = _format_timestamp(last_sync_at),
                !.famly_last_scrape_at = _format_timestamp(famly_last),
                !.baby_connect_last_scrape_at = _format_timestamp(baby_last),
                !.sync_in_progress = in_progress,
                !.sync_status = IF in_progress THEN "running" ELSE "idle",
                !.snapshot = progress_snapshot])
    /\ UNCHANGED <<lock, holder, progress, famlyIds, bcIds, famlyLast, bcLast,
                   days, ids, cur, success, calls, writes, recorded, faults>>

\* the response was sent: the thread serves the next request
NextRequest(r) ==
    /\ pc[r] = "done"
    /\ op' = Set(r, op, "idle")
    /\ pc' = Set(r, pc, "idle")
    /\ days' = Set(r, days, 0)
    /\ ids' = Set(r, ids, <<>>)
    /\ cur' = Set(r, cur, 0)
    /\ success' = Set(r, success, FALSE)
    /\ outcome' = Set(r, outcome, NoOutcome)
    /\ calls' = Set(r, calls, <<>>)
    /\ writes' = Set(r, writes, <<>>)
    /\ recorded' = Set(r, recorded, FALSE)
    /\ UNCHANGED <<lock, holder, progress, famlyIds, bcIds, famlyLast, bcLast, faults>>

\* ------------------------------------------------------------------ spec
\* the steps of the two gated handlers
GatedSteps(r) ==
    \/ CreateEntries(r)
    \/ SyncMissing(r)
    \/ SyncMissingCompute(r)
    \/ SyncMissingExit(r)
    \/ StartProgress(r)
    \/ SetMessage(r)
    \/ ServiceWrite(r)
    \/ ServiceReturn(r)
    \/ FailProgress(r)
    \/ FinishProgress(r)
    \/ ClearProgress(r)
    \/ Release(r)

Next ==
    \E r \in Reqs :
        \/ GatedSteps(r)
        \/ ScrapeSource(r)
        \/ ScrapeTarget(r)
        \/ RunTrimmed(r)
        \/ Scrape(r)
        \/ RunCompute(r)
        \/ GetProgress(r)
        \/ GetStatus(r)
        \/ NextRequest(r)

Spec == Init /\ [][Next]_vars

\* ------------------------------------------- a tracker call that raises
\* None of the handlers' tracker calls is guarded.  Where the exception goes:
\*   start_progress, set_progress_message: before the try block, so it leaves
\*     the handler at once and the finally block never runs
\*   fail_progress: inside the except clause, so it replaces the
\*     HTTPException and the finally block runs
\*   finish_progress, clear_progress: inside the finally block, so the rest of
\*     the block is skipped and it replaces the response
TrackerRaises(r) ==
    /\ op[r] \in GatedOps
    /\ faults < MaxFaults
    /\ faults' = faults + 1
    /\ \/ /\ pc[r] \in {"start", "msg"}
          /\ pc' = Set(r, pc, "done")
       \/ /\ pc[r] = "fail"
          /\ pc' = Set(r, pc, "clear")
       \/ /\ pc[r] = "finish"
          /\ success[r]
          /\ pc' = Set(r, pc, "done")
       \/ /\ pc[r] = "clear"
          /\ pc' = Set(r, pc, "done")
    /\ outcome' = Set(r, outcome, Unhandled)
    /\ UNCHANGED <<lock, holder, progress, famlyIds, bcIds, famlyLast, bcLast, op, days, ids, cur,
                   success, calls, writes, recorded>>

\* the gated handlers (and the famly scrape that gives them missing ids)
\* with a progress tracker whose calls may raise
NextTF ==
    \E r \in Reqs :
        \/ GatedSteps(r)
        \/ TrackerRaises(r)
        \/ ScrapeSource(r)
        \/ Scrape(r)
        \/ NextRequest(r)

SpecTF == Init /\ [][NextTF]_vars

\* ================================================================ claims
\* r is inside its call of the create-entries service
Replaying(r) ==
    /\ pc[r] = "service"
    /\ Len(calls[r]) > 0
    /\ calls[r][Len(calls[r])] = "create"

InHandler(r) == pc[r] \notin {"idle", "done"}

\* the step taken is request r arriving at a gated route
ArrivesGated(r) == pc[r] = "idle" /\ op'[r] \in GatedOps

\* ---------------------------------------------------------------- C1
\* C1: at most one call of the create-entries service is in progress at any
\* moment, whichever of CreateEntries, SyncMissing and RunTrimmed made it.
C1_OneReplayAtATime == Cardinality({r \in Reqs : Replaying(r)}) <= 1

\* ---------------------------------------------------------------- C2
\* C2: a CreateEntries or SyncMissing request that finds the gate held ends
\* in that one step with 409, having called no service, and leaves the gate,
\* its holder, the progress entries and the store as they were.
C2_ConflictDoesNoWork ==
    [][\A r \in Reqs :
        (ArrivesGated(r) /\ lock) =>
            /\ pc'[r] = "done"
            /\ outcome'[r] = HttpError(Conflict, ConflictDetail)
            /\ calls'[r] = <<>>
            /\ writes'[r] = <<>>
            /\ UNCHANGED <<lock, holder, progress, famlyIds, bcIds, famlyLast, bcLast>>]_vars

\* a request was turned away while another one, holding the gate, is replaying
\* with its "sync" entry running
C2_Witness ==
    \E r, q \in Reqs :
        /\ pc[r] = "done"
        /\ op[r] \in GatedOps
        /\ outcome[r].code = Conflict
        /\ q \in holder
        /\ Replaying(q)
        /\ cur[q] > 0
        /\ Present(progress, "sync")
        /\ progress["sync"].status = "running"

\* ---------------------------------------------------------------- C3
NoGatedInHandler == \A r \in Reqs : op[r] \in GatedOps => pc[r] = "done"

\* C3: a gated request that has returned holds the gate no more, whichever
\* way it left; so with no gated request in its handler the gate is free, and
\* a gated request arriving then acquires it.
C3_GateReleasedOnExit ==
    /\ [](\A r \in Reqs : ~InHandler(r) => r \notin holder)
    /\ [](NoGatedInHandler => ~lock)
    /\ [][\A r \in Reqs :
            (ArrivesGated(r) /\ NoGatedInHandler) =>
                (outcome'[r].code # Conflict /\ r \in holder')]_vars

\* both kinds of request have returned, one after ComputeMissing raised and
\* one after the replay raised, and the gate is free
C3_Witness ==
    \E r, q \in Reqs :
        /\ pc[r] = "done" /\ op[r] = "SyncMissing"
        /\ outcome[r].detail = "QueryError"
        /\ pc[q] = "done" /\ op[q] = "CreateEntries"
        /\ outcome[q].detail = "WriteError"
        /\ ~lock

\* ---------------------------------------------------------------- C4
\* r is a SyncMissing request whose ComputeMissing returned the empty set
EmptyRun(r) ==
    /\ op[r] = "SyncMissing"
    /\ calls[r] # <<>>
    /\ ids[r] = <<>>
    /\ outcome[r].code # ServerError

EmptyResponse == [NoOutcome EXCEPT !.code = Ok, !.status = "ok"]

\* what C4 says of the response, the tracker and the replay
EmptyRunDoesNothing ==
    /\ [](\A r \in Reqs :
            EmptyRun(r) =>
                /\ outcome[r] = EmptyResponse
                /\ outcome[r].created = 0 /\ outcome[r].missing = <<>>
                /\ writes[r] = <<>>
                /\ calls[r] = <<"missing">>)
    /\ [][\A r \in Reqs :
            (EmptyRun(r)' /\ pc'[r] # pc[r]) =>
                (progress' = progress /\ ~Present(progress, "sync"))]_vars

\* C4 as claimed: when ComputeMissing returns the empty set the response is
\* created 0 with no missing ids, no progress entry is created, nothing is
\* replayed, and the request never holds the gate.
C4_GateNeverHeldWhenEmpty ==
    /\ EmptyRunDoesNothing
    /\ [](\A r \in Reqs : EmptyRun(r) => (r \notin holder /\ (InHandler(r) => ~lock)))

\* C4 amended: the same response, no progress entry and no replay; the gate is
\* held by the request until ComputeMissing has returned and is released
\* before the request returns.
C4_EmptyRunReleasesGate ==
    /\ EmptyRunDoesNothing
    /\ [](\A r \in Reqs :
            EmptyRun(r) =>
                /\ pc[r] = "exit" => (lock /\ r \in holder)
                /\ pc[r] = "done" => r \notin holder)

\* ComputeMissing has just returned the empty set to r, which holds the gate,
\* and another request was turned away meanwhile
C4_Witness ==
    \E r, q \in Reqs :
        /\ EmptyRun(r) /\ pc[r] = "exit" /\ r \in holder
        /\ pc[q] = "done" /\ op[q] \in GatedOps /\ outcome[q].code = Conflict

\* ---------------------------------------------------------------- C5
\* the step taken ends a CreateEntries or SyncMissing request r
Completes(r) == op'[r] \in GatedOps /\ pc[r] # "done" /\ pc'[r] = "done"

SyncAbsent(p) == ~Present(get_progress_snapshot(p), "sync")

\* C5 as claimed: whenever a CreateEntries or SyncMissing request completes,
\* with whatever result, the snapshot GetProgress returns from then on has no
\* "sync" entry.
C5_SyncAbsentAfterAnyRequest ==
    [][\A r \in Reqs : Completes(r) => SyncAbsent(progress')]_vars

\* C5 amended: a request that had acquired the gate leaves no "sync" entry
\* when it completes, and none appears while the gate stays free.
C5_SyncAbsentAfterGateHolder ==
    /\ [][\A r \in Reqs :
            (Completes(r) /\ outcome'[r].code # Conflict) => SyncAbsent(progress')]_vars
    /\ [][(~lock /\ ~lock' /\ SyncAbsent(progress)) => SyncAbsent(progress')]_vars

\* a CreateEntries request has failed in its replay and returned, and a
\* GetProgress made after it shows no "sync" entry
C5_Witness ==
    \E r, g \in Reqs :
        /\ pc[r] = "done" /\ op[r] = "CreateEntries"
        /\ outcome[r].detail = "WriteError"
        /\ recorded[r]
        /\ pc[g] = "done" /\ op[g] = "GetProgress"
        /\ SyncAbsent(outcome[g].snapshot)

\* ---------------------------------------------------------------- C6
\* r's replay has raised: a write was attempted that did not succeed
ReplayFailed(r) == Len(writes[r]) = cur[r] + 1

\* r's except clause has run fail_progress and its finally block has not
\* cleared the entry yet: the entry is in its final state
AfterFail(r) == op[r] \in GatedOps /\ pc[r] = "clear" /\ ~success[r]

\* C6: when the write of the k-th id raises, the writes attempted are the
\* first k ids in input order and no more, the "sync" entry ends failed with
\* current = k-1 and the error set, and the caller gets the error.
C6_FailFast ==
    \A r \in Reqs :
        AfterFail(r) =>
            /\ ReplayFailed(r)
            /\ writes[r] = SubSeq(ids[r], 1, cur[r] + 1)
            /\ outcome[r] = HttpError(ServerError, "WriteError")
            /\ Present(progress, "sync")
            /\ progress["sync"].status = "failed"
            /\ progress["sync"].error # ""
            /\ progress["sync"].current = cur[r]

\* ---------------------------------------------------------------- C7
\* C7 (its replay half): a request of CreateEntries, SyncMissing or RunTrimmed
\* whose replay raised has returned 500 with the detail, and before that the
\* tracker held a failed entry with the detail for a reader to see.
C7_ReplayFailureRecorded ==
    \A r \in Reqs :
        (op[r] \in ReplayOps /\ pc[r] = "done" /\ ReplayFailed(r)) =>
            /\ outcome[r].code = ServerError
            /\ outcome[r].detail \in
                  {"WriteError", "Syncing missing events failed: WriteError"}
            /\ recorded[r]

\* ---------------------------------------------------------------- C8
\* C8: a tracker call that raises leaves the request's own result in place
\* (no unhandled exception is what the caller gets), and the gate is free
\* once the request has ended.
C8_TrackerFailureHarmless ==
    /\ \A r \in Reqs :
          (op[r] \in GatedOps /\ pc[r] = "done") =>
              (outcome[r] # Unhandled /\ r \notin holder)
    /\ NoGatedInHandler => ~lock

\* ---------------------------------------------------------------- C9
RunStages == <<"scrape_famly", "missing", "create">>

StageError(n) ==
    IF n = 1 THEN "Famly scrape failed: ScrapeError"
    ELSE IF n = 2 THEN "Failed to determine missing events: QueryError"
    ELSE "Syncing missing events failed: WriteError"

\* C9: the calls of a RunTrimmed request are Ingest, ComputeMissing, Replay in
\* that order; Replay is called only with a non-empty missing set; an error
\* ends the run at once, so no later stage starts, and it names the stage of
\* the last call made; a run that returns has made the first two calls, and
\* the third exactly when the missing set was not empty.
C9_RunStagesInOrder ==
    \A r \in Reqs :
        op[r] = "RunTrimmed" =>
            /\ Len(calls[r]) <= 3
            /\ calls[r] = SubSeq(RunStages, 1, Len(calls[r]))
            /\ Len(calls[r]) = 3 => ids[r] # <<>>
            /\ writes[r] # <<>> => Len(calls[r]) = 3
            /\ outcome[r].code = ServerError =>
                  /\ pc[r] = "done"
                  /\ calls[r] # <<>>
                  /\ outcome[r].detail = StageError(Len(calls[r]))
            /\ (pc[r] = "done" /\ outcome[r].code = Ok) =>
                  Len(calls[r]) = IF ids[r] = <<>> THEN 2 ELSE 3

\* a RunTrimmed request went through the three stages and failed in the last
C9_Witness ==
    \E r \in Reqs :
        /\ op[r] = "RunTrimmed" /\ pc[r] = "done"
        /\ calls[r] = RunStages
        /\ cur[r] > 0
        /\ outcome[r].detail = StageError(3)

\* ---------------------------------------------------------------- C10
\* the bounds C10 states: 0 to 7 for ScrapeSource and RunTrimmed, 0 to 14 for
\* ScrapeTarget
OutOfClaimedBound(o, d) == d < 0 \/ d > (IF o = "ScrapeTarget" THEN 14 ELSE 7)

\* C10: a request whose days_back is out of bound ends with 422 on arrival,
\* having called no driver, ComputeMissing or replay, and leaves the store,
\* the gate and the tracker as they were.
C10_OutOfBoundRejected ==
    /\ [](\A r \in Reqs :
            (op[r] \in DaysOps /\ OutOfClaimedBound(op[r], days[r])) =>
                /\ pc[r] = "done"
                /\ outcome[r].code = Unprocessable
                /\ calls[r] = <<>>
                /\ writes[r] = <<>>)
    /\ [][\A r \in Reqs :
            (pc[r] = "idle" /\ op'[r] \in DaysOps
                /\ OutOfClaimedBound(op'[r], days'[r])) =>
                UNCHANGED <<lock, holder, progress, famlyIds, bcIds, famlyLast, bcLast>>]_vars

\* requests over each bound were rejected: 8 days of famly, 15 of baby_connect
C10_Witness ==
    \E r, q \in Reqs :
        /\ op[r] = "ScrapeTarget" /\ days[r] = BabyConnectMaxDaysBack + 1
        /\ outcome[r].code = Unprocessable
        /\ op[q] = "RunTrimmed" /\ days[q] = RunMaxDaysBack + 1
        /\ outcome[q].code = Unprocessable

\* ------------------------------------------------------------ GetStatus
StatusAnswered(r) == op[r] = "GetStatus" /\ pc[r] = "done"

\* C11: GetStatus reports sync_in_progress = true if and only if some entry of
\* the snapshot it took has status running, and sync_status is "running"
\* exactly then and "idle" otherwise
C11_InProgressIffRunning ==
    \A r \in Reqs :
        StatusAnswered(r) =>
            LET o == outcome[r] IN
            /\ o.sync_in_progress <=>
                  ("running" \in {o.snapshot[n].status : n \in DOMAIN o.snapshot})
            /\ o.sync_status = (IF o.sync_in_progress THEN "running" ELSE "idle")

\* a status taken between finish_progress and clear_progress: an entry is
\* there, none is running
C11_Witness ==
    \E r \in Reqs :
        /\ StatusAnswered(r)
        /\ Present(outcome[r].snapshot, "sync")
        /\ outcome[r].snapshot["sync"].status = "succeeded"
        /\ ~outcome[r].sync_in_progress
        /\ outcome[r].sync_status = "idle"

\* the created_at a formatted timestamp was made from, 0 for None
Stamp(f) == IF f = <<>> THEN 0 ELSE f[1]

\* C12 (as claimed): last_sync_at is the more recent of the target's and the
\* source's latest timestamps, for every pair of them
C12_LastSyncIsMoreRecent ==
    \A r \in Reqs :
        StatusAnswered(r) =>
            LET b == Stamp(outcome[r].baby_connect_last_scrape_at)
                f == Stamp(outcome[r].famly_last_scrape_at)
            IN Stamp(outcome[r].last_sync_at) = (IF b >= f THEN b ELSE f)

\* C12 (amended): GetStatus reports as last_sync_at the target's latest
\* timestamp whenever the target has one, even when the source's is more
\* recent; the source's when only the source has one; none when neither has
C12_LastSyncPrefersTarget ==
    [][\A r \in Reqs :
          pc[r] = "idle" /\ op'[r] = "GetStatus" =>
             /\ outcome'[r].baby_connect_last_scrape_at =
                   (IF bcLast = 0 THEN <<>> ELSE <<bcLast>>)
             /\ outcome'[r].famly_last_scrape_at =
                   (IF famlyLast = 0 THEN <<>> ELSE <<famlyLast>>)
             /\ outcome'[r].last_sync_at =
                   (IF bcLast # 0 THEN <<bcLast>>
                    ELSE IF famlyLast # 0 THEN <<famlyLast>>
                    ELSE <<>>)]_vars

\* both tags have events and the source's latest is the more recent one
C12_Witness ==
    \E r \in Reqs :
        /\ StatusAnswered(r)
        /\ outcome[r].baby_connect_last_scrape_at # <<>>
        /\ Stamp(outcome[r].famly_last_scrape_at) >
              Stamp(outcome[r].baby_connect_last_scrape_at)
        /\ outcome[r].last_sync_at = outcome[r].baby_connect_last_scrape_at

\* ------------------------------------------------------ success responses
Succeeded(r) == op[r] \in ReplayOps /\ pc[r] = "done" /\ outcome[r].code = Ok

\* C13: every successful response of CreateEntries, SyncMissing and RunTrimmed
\* carries status = ok, whatever the create-entries service returned (no
\* status field, or another status value)
C13_SuccessEchoesOk ==
    \A r \in Reqs : Succeeded(r) => outcome[r].status = "ok"

\* --------------------------------------------------------- ComputeMissing
\* the step of r in which get_missing_famly_event_ids() returns
ComputeReturns(r) ==
    /\ pc[r] = "missing"
    /\ pc'[r] # "missing"
    /\ outcome'[r].code # ServerError

Range(seq) == {seq[i] : i \in DOMAIN seq}

ComputeToReplay(r) ==
    /\ op[r] \in {"SyncMissing", "RunTrimmed"}
    /\ pc[r] \in {"missing", "start", "msg", "service"}

\* C15: SyncMissing and RunTrimmed hold the gate from before ComputeMissing
\* is evaluated until the replay of its result ends
C15_GateHeldFromComputeToReplay ==
    \A r \in Reqs : ComputeToReplay(r) => lock /\ r \in holder

\* C16: a replay run, whichever operation starts it, has registered the "sync"
\* entry, running, with total = number of ids, before its first target write;
\* so the entry is there and running as long as the replay is in progress
C16_ReplayRegistersSync ==
    \A r \in Reqs :
        (op[r] \in ReplayOps /\ Replaying(r)) =>
            /\ Present(progress, "sync")
            /\ progress["sync"].status = "running"
            /\ progress["sync"].total = Len(ids[r])

\* ------------------------------------------------ the "sync" entry's life
SyncStatus(p) == IF Present(p, "sync") THEN p["sync"].status ELSE "absent"

SyncTransitions ==
    {<<"absent", "running">>, <<"running", "succeeded">>,
     <<"running", "failed">>, <<"succeeded", "absent">>, <<"failed", "absent">>}

\* C17: in a CreateEntries or SyncMissing run that reaches the replay, the
\* status of the "sync" entry goes absent, running, then succeeded (only when
\* the replay returned) or failed (only when it raised), then absent; finish
\* and fail are never both applied, and only clear leaves succeeded or failed
C17_SyncStatusSequence ==
    /\ [](\A r \in Reqs :
            op[r] \in GatedOps =>
               /\ pc[r] = "start" => SyncStatus(progress) = "absent"
               /\ pc[r] \in {"msg", "service", "fail", "finish"} =>
                     SyncStatus(progress) = "running"
               /\ pc[r] = "finish" => cur[r] = Len(ids[r]) /\ ~ReplayFailed(r)
               /\ pc[r] = "fail" => ReplayFailed(r)
               /\ pc[r] = "clear" =>
                     IF ReplayFailed(r)
                     THEN SyncStatus(progress) = "failed" /\ ~success[r]
                     ELSE SyncStatus(progress) = "succeeded" /\ success[r]
               /\ pc[r] = "release" => SyncStatus(progress) = "absent")
    /\ [][SyncStatus(progress') # SyncStatus(progress) =>
            /\ <<SyncStatus(progress), SyncStatus(progress')>> \in SyncTransitions
            /\ \E r \in Reqs :
                  /\ op[r] \in GatedOps
                  /\ <<pc[r], pc'[r]>> \in
                        {<<"start", "msg">>, <<"finish", "clear">>,
                         <<"fail", "clear">>, <<"clear", "release">>}]_vars

\* a run whose second write raised is about to clear its failed entry
C17_Witness ==
    \E r \in Reqs :
        /\ op[r] \in GatedOps
        /\ pc[r] = "clear"
        /\ cur[r] = 1 /\ ReplayFailed(r)
        /\ SyncStatus(progress) = "failed"

\* ------------------------------------------------- the entry and the gate
\* C18: with CreateEntries and SyncMissing requests running concurrently, the
\* "sync" entry exists only while the gate is held: it is created by the
\* holder after its acquire and is gone before the gate is released
C18_SyncEntryOnlyUnderGate ==
    /\ [](Present(progress, "sync") => lock /\ holder # {})
    /\ [][(~Present(progress, "sync") /\ Present(progress', "sync")) =>
            \E r \in holder : lock /\ pc[r] = "start" /\ pc'[r] = "msg"]_vars
    /\ [][(lock /\ ~lock') => ~Present(progress, "sync")]_vars

\* a gated run has its entry registered while a second gated request was
\* turned away
C18_Witness ==
    \E r, q \in Reqs :
        /\ r \in holder /\ pc[r] = "service"
        /\ Present(progress, "sync")
        /\ op[q] \in GatedOps /\ outcome[q].code = Conflict

\* r is about to call _release_sync_lock
AtRelease(r) == pc[r] \in {"release", "exit"}

\* C19: the gate is released only by the request that holds it: a request
\* that is at a release is the holder, one that was rejected with a conflict
\* never gets there, and a request that has released is at no further release
C19_OnlyHolderReleases ==
    /\ [](Cardinality(holder) <= 1 /\ (lock <=> holder # {}))
    /\ [](\A r \in Reqs :
            /\ AtRelease(r) => lock /\ holder = {r}
            /\ outcome[r].code = Conflict => pc[r] = "done" /\ r \notin holder)
    /\ [][(lock /\ ~lock') =>
            \E r \in holder : AtRelease(r) /\ pc'[r] = "done"]_vars
    /\ [][\A r \in Reqs : (AtRelease(r) /\ ~AtRelease(r)') =>
            pc'[r] = "done" /\ r \notin holder']_vars

\* the holder is at its release after a rejected request has come and gone
C19_Witness ==
    \E r, q \in Reqs :
        /\ pc[r] = "release" /\ holder = {r}
        /\ pc[q] = "done" /\ outcome[q].code = Conflict
        /\ op[q] = "SyncMissing" /\ calls[q] = <<>>
====
